---- MODULE Spec2Model ----
(***************************************************************************)
(* NSGA-II and R-NSGA-II searchers of                                      *)
(* hypernets/searchers/nsga_searcher.py, and the job status files written  *)
(* by change_job_status of hypernets/hyperctl/dao.py.                      *)
(*                                                                         *)
(* Individuals are objects: `heap` is the table of all NSGAIndividual      *)
(* objects ever constructed (index = object identity), `history` and       *)
(* `population` are Python lists of references (indices into heap).        *)
(* rank and distance are fields of the objects, so a sort over one list    *)
(* is visible through every other list that holds the same object.         *)
(* The sort-scratch fields n, S and T are recomputed from nothing by every *)
(* sort and read nowhere else; they are computed inside the operators and  *)
(* not kept in the state.                                                  *)
(*                                                                         *)
(* Scores are small integers.  A float distance d is kept exactly, as the  *)
(* integer d * Scale, together with the two IEEE specials +inf and NaN.    *)
(* With scores 0..2 every quotient (next - previous) / (max - min) is a    *)
(* multiple of 1/2, so the float sums of the code are exact and equal the  *)
(* integers kept here.  With a score range of 3 the code's sums of thirds  *)
(* round (-1 + 1/3 + 2/3 and -1 + 2/3 + 1/3 differ in the last bit), and   *)
(* two individuals with equal score vectors that tie exactly here can be   *)
(* ordered by that bit in the code; the sizes, ranks and the order between *)
(* distances that differ by more than a rounding error are not affected.   *)
(*                                                                         *)
(* core.pareto.pareto_dominate is not part of the sources at hand; it is   *)
(* taken from its contract: a dominates b iff a is at least as good on     *)
(* every objective and strictly better on one.  The contract leaves        *)
(* unknown (None) scores undefined; an ordering comparison with None       *)
(* raises TypeError in Python 3, and that is the outcome modelled.  The    *)
(* contract names no default direction either; RDominanceSurvival calls    *)
(* pareto_dominate with directions=None, which is taken to minimise every  *)
(* objective.                                                              *)
(***************************************************************************)
EXTENDS Integers, Sequences, FiniteSets, TLC

VARIABLES
    survival,         \* self.survival: the survival object (class, and the fields of
                      \* RDominanceSurvival: ref_point, weights, threshold)
    directions,       \* self.directions: one of "min"/"max" per objective
    population_size,  \* self.population_size
    heap,             \* every NSGAIndividual object: [scores, rank, distance]
    history,          \* self._historical_individuals: list of references
    population,       \* self.population: list of references
    ret,              \* what the last call returned or raised
    fronts,           \* the list F returned by the last fast_non_dominated_sort call
    pc,               \* position inside binary_tournament_select
    indi_inx,         \* binary_tournament_select: the current pair of drawn indices
    p1, p2,           \* binary_tournament_select: indices of the first drawn pair
    first_inx,        \* binary_tournament_select: index of the first parent
    second_inx,       \* binary_tournament_select: index of the second parent
    try_times,        \* binary_tournament_select: retry counter
    status_files,     \* hyperctl: for every job, the statuses whose status file exists
    job_call          \* hyperctl: the last change_job_status call and its position

vars == <<survival, directions, population_size, heap, history, population, ret, fronts,
          pc, indi_inx, p1, p2, first_inx, second_inx, try_times,
          status_files, job_call>>

searcherVars == <<survival, directions, population_size, heap, history, population, ret, fronts>>
tournamentVars == <<pc, indi_inx, p1, p2, first_inx, second_inx, try_times>>
jobVars == <<status_files, job_call>>

-----------------------------------------------------------------------------
(* Bounds of the model *)

MaxScore == 2
MaxHist == 4
MaxPopSize == 2
MaxTourPop == 4
MaxList == 4
MaxJobs == 2

-----------------------------------------------------------------------------
(* Program constants *)

\* an unknown score (Python None), kept apart from every real score 0..MaxScore
NoneScore == -1

\* NSGAIndividual.rank before any sort
RankUnset == -1

\* the retry cap of binary_tournament_select
RetryCap == 10000

-----------------------------------------------------------------------------
(* Generic helpers *)

Range(s) == {s[i] : i \in 1..Len(s)}

\* the list [i \in 1..n |-> e] as a tuple, its elements computed once
AsList(f) == f \o <<>>

Reverse(s) == AsList([i \in 1..Len(s) |-> s[Len(s) + 1 - i]])

SetMax(S) == CHOOSE x \in S : \A y \in S : y <= x
SetMin(S) == CHOOSE x \in S : \A y \in S : x <= y

RECURSIVE GCD(_, _)
GCD(a, b) == IF b = 0 THEN a ELSE GCD(b, a % b)

RECURSIVE LCMUpTo(_)
LCMUpTo(n) == IF n <= 1 THEN 1 ELSE (LCMUpTo(n - 1) * n) \div GCD(LCMUpTo(n - 1), n)

\* every (max - min) a front can show divides Scale, so distances stay integers
Scale == LCMUpTo(MaxScore)

-----------------------------------------------------------------------------
(* float distances: finite (scaled by Scale), +inf, NaN *)

Fin(v) == [k |-> "fin", v |-> v]
Inf == [k |-> "inf", v |-> 0]
NaN == [k |-> "nan", v |-> 0]

\* an addition in which a finite term replaces +inf
DistAdd_InfLowered(a, b) ==
    IF a.k = "nan" \/ b.k = "nan" THEN NaN
    ELSE IF a.k = "inf" THEN b
    ELSE Fin(a.v + b.v)

\* a + b in IEEE arithmetic; b is never infinite here
DistAdd(a, b) ==
    IF a.k = "nan" \/ b.k = "nan" THEN NaN
    ELSE IF a.k = "inf" THEN Inf
    ELSE Fin(a.v + b.v)

\* num / den as numpy divides: 0/0 is NaN, x/0 is +inf for x > 0
DistDiv(num, den) ==
    IF den = 0 THEN (IF num = 0 THEN NaN ELSE Inf)
    ELSE Fin((num * Scale) \div den)

DistGT(a, b) ==
    IF a.k = "nan" \/ b.k = "nan" THEN FALSE
    ELSE IF a.k = "inf" THEN b.k = "fin"
    ELSE b.k = "fin" /\ a.v > b.v

DistLT(a, b) == DistGT(b, a)

DistEQ(a, b) ==
    IF a.k = "nan" \/ b.k = "nan" THEN FALSE ELSE a = b

-----------------------------------------------------------------------------
(* NSGAIndividual *)

NSGAIndividual(scores) ==
    [scores |-> scores, rank |-> RankUnset, distance |-> Fin(-Scale)]

\* NSGAIndividual.reset on every object of the list pop
ResetAll(h, pop) ==
    AsList([i \in 1..Len(h) |->
               IF i \in Range(pop)
               THEN [h[i] EXCEPT !.rank = RankUnset, !.distance = Fin(-Scale)]
               ELSE h[i]])

\* (np.array(indi.scores) == None).any()
HasNone(scores) == \E i \in 1..Len(scores) : scores[i] = NoneScore

-----------------------------------------------------------------------------
(* Dominance *)

\* core.pareto.pareto_dominate on two fully known score vectors
pareto_dominate(x1, x2, dirs) ==
    /\ \A i \in 1..Len(x1) :
          IF dirs[i] = "min" THEN x1[i] <= x2[i] ELSE x1[i] >= x2[i]
    /\ \E i \in 1..Len(x1) :
          IF dirs[i] = "min" THEN x1[i] < x2[i] ELSE x1[i] > x2[i]

\* pareto_dominate does arithmetic on the components: a None raises TypeError
pareto_raises(x1, x2) == HasNone(x1) \/ HasNone(x2)

\* dominate with its two individuals exchanged
dominate_Swapped(h, ind1, ind2, dirs) ==
    pareto_dominate(h[ind2].scores, h[ind1].scores, dirs)

\* RankAndCrowdSortSurvival.dominate
dominate(h, ind1, ind2, dirs) == pareto_dominate(h[ind1].scores, h[ind2].scores, dirs)

-----------------------------------------------------------------------------
(* Python's list sort *)

\* sorted(I, key=lambda v: v.scores[m], reverse=False): stable insertion of x
InsertByScore(h, s, x, m) ==
    LET k == Cardinality({i \in 1..Len(s) : h[s[i]].scores[m] <= h[x].scores[m]})
    IN SubSeq(s, 1, k) \o <<x>> \o SubSeq(s, k + 1, Len(s))

RECURSIVE SortedByScore(_, _, _)
SortedByScore(h, I, m) ==
    IF I = <<>> THEN <<>>
    ELSE InsertByScore(h, SortedByScore(h, SubSeq(I, 1, Len(I) - 1), m), I[Len(I)], m)

\* count_run of listobject.c: the length of the run that starts the list, which
\* is ascending (no element less than its predecessor) or strictly descending
RECURSIVE RunLength(_, _, _, _)
RunLength(a, lt, descending, n) ==
    IF n >= Len(a) THEN n
    ELSE IF lt[a[n + 1]][a[n]] = descending THEN RunLength(a, lt, descending, n + 1)
    ELSE n

\* binarysort's search: the slot in a[l..r-1] (1-based, r exclusive) for pivot
RECURSIVE BinarySlot(_, _, _, _, _)
BinarySlot(a, lt, pivot, l, r) ==
    IF l >= r THEN l
    ELSE LET p == l + ((r - l) \div 2)
         IN IF lt[pivot][a[p]] THEN BinarySlot(a, lt, pivot, l, p)
            ELSE BinarySlot(a, lt, pivot, p + 1, r)

\* binarysort of listobject.c: a[1..start-1] is sorted, insert a[start..]
RECURSIVE BinarySort(_, _, _)
BinarySort(a, lt, start) ==
    IF start > Len(a) THEN a
    ELSE LET pivot == a[start]
             l == BinarySlot(a, lt, pivot, 1, start)
             moved == SubSeq(a, 1, l - 1) \o <<pivot>> \o SubSeq(a, l, start - 1)
                      \o SubSeq(a, start + 1, Len(a))
         IN BinarySort(moved, lt, start + 1)

\* list.sort() for a list shorter than minrun (64): one run, then binarysort
ListSort(a, lt) ==
    IF Len(a) < 2 THEN a
    ELSE LET descending == lt[a[2]][a[1]]
             n == RunLength(a, lt, descending, 2)
             run == IF descending
                    THEN Reverse(SubSeq(a, 1, n)) \o SubSeq(a, n + 1, Len(a))
                    ELSE a
         IN BinarySort(run, lt, n + 1)

\* sorted(a, key=cmp_to_key(cmp), reverse=True): reverse, stable sort, reverse
SortedReverse(a, lt) == Reverse(ListSort(Reverse(a), lt))

-----------------------------------------------------------------------------
(* RankAndCrowdSortSurvival *)

\* cmp_operator with the distance test turned round (the smaller distance wins)
cmp_operator_SmallerDistance(s1, s2) ==
    IF s1.rank < s2.rank THEN 1
    ELSE IF s1.rank = s2.rank
         THEN IF DistLT(s1.distance, s2.distance) THEN 1
              ELSE IF DistEQ(s1.distance, s2.distance) THEN 0
              ELSE -1
    ELSE -1

\* RankAndCrowdSortSurvival.cmp_operator
cmp_operator(s1, s2) ==
    IF s1.rank < s2.rank THEN 1
    ELSE IF s1.rank = s2.rank
         THEN IF DistGT(s1.distance, s2.distance) THEN 1
              ELSE IF DistEQ(s1.distance, s2.distance) THEN 0
              ELSE -1
    ELSE -1

\* cmp_to_key(cmp_operator): K(x) < K(y) iff cmp_operator(x, y) < 0
CmpKeyLess(h) ==
    [x \in 1..Len(h) |-> [y \in 1..Len(h) |-> cmp_operator(h[x], h[y]) < 0]]

\* one pass of the loop over objectives in crowding_distance_assignment
CrowdObjective(h, I, m) ==
    LET sorted_I == SortedByScore(h, I, m)
        L == Len(I)
        col == {h[I[i]].scores[m] : i \in 1..L}
        extent == SetMax(col) - SetMin(col)
        h1 == [h EXCEPT ![sorted_I[1]].distance = Inf]
        h2 == [h1 EXCEPT ![sorted_I[L]].distance = Inf]
        Interior(j) == {i \in 2..(L - 1) : sorted_I[i] = j}
    IN AsList([j \in 1..Len(h) |->
          IF Interior(j) = {} THEN h2[j]
          ELSE LET i == CHOOSE i \in Interior(j) : TRUE
               IN [h2[j] EXCEPT !.distance =
                      DistAdd(h2[j].distance,
                              DistDiv(h[sorted_I[i + 1]].scores[m]
                                        - h[sorted_I[i - 1]].scores[m], extent))]])

RECURSIVE CrowdFrom(_, _, _)
CrowdFrom(h, I, m) ==
    IF m > Len(h[I[1]].scores) THEN h
    ELSE CrowdFrom(CrowdObjective(h, I, m), I, m + 1)

\* RankAndCrowdSortSurvival.crowding_distance_assignment: the heap afterwards
\* (the list I itself is returned as it was given)
crowding_distance_assignment(h, I) == CrowdFrom(h, I, 1)

\* p.S after the pairwise loop of fast_non_dominated_sort
DominatedList(h, pop, p, dirs) ==
    SelectSeq(pop, LAMBDA q : q # p /\ dominate(h, p, q, dirs))

\* p.n after the pairwise loop of fast_non_dominated_sort
DominanceCount(h, pop, p, dirs) ==
    Cardinality({i \in 1..Len(pop) : pop[i] # p /\ dominate(h, pop[i], p, dirs)})

\* the q's visited by "for p in F[i]: for q in p.S", in order
RECURSIVE VisitList(_, _, _, _)
VisitList(h, pop, front, dirs) ==
    IF front = <<>> THEN <<>>
    ELSE DominatedList(h, pop, Head(front), dirs) \o VisitList(h, pop, Tail(front), dirs)

\* the loop body without its "if q.n == 0" test: every visit ranks and appends q
RECURSIVE Decrement_NoCountCheck(_, _, _)
Decrement_NoCountCheck(qs, st, i) ==
    IF qs = <<>> THEN st
    ELSE LET q == Head(qs)
         IN Decrement_NoCountCheck(Tail(qs),
                [n |-> [st.n EXCEPT ![q] = st.n[q] - 1],
                 heap |-> [st.heap EXCEPT ![q].rank = i + 1],
                 Q |-> Append(st.Q, q)],
                i)

\* the body "q.n = q.n - 1; if q.n == 0: q.rank = i + 1; Q.append(q)" over qs
RECURSIVE Decrement(_, _, _)
Decrement(qs, st, i) ==
    IF qs = <<>> THEN st
    ELSE LET q == Head(qs)
             n1 == st.n[q] - 1
         IN Decrement(Tail(qs),
                      IF n1 = 0
                      THEN [n |-> [st.n EXCEPT ![q] = n1],
                            heap |-> [st.heap EXCEPT ![q].rank = i + 1],
                            Q |-> Append(st.Q, q)]
                      ELSE [st EXCEPT !.n[q] = n1],
                      i)

\* the "while True" loop of fast_non_dominated_sort, from front i (0-based)
RECURSIVE PeelFronts(_, _, _, _, _, _)
PeelFronts(h, pop, F, n, i, dirs) ==
    LET st == Decrement(VisitList(h, pop, F[i + 1], dirs),
                        [n |-> n, heap |-> h, Q |-> <<>>], i)
    IN IF st.Q = <<>> THEN [exc |-> "", heap |-> st.heap, F |-> F]
       ELSE PeelFronts(st.heap, pop, Append(F, st.Q), st.n, i + 1, dirs)

\* RankAndCrowdSortSurvival.fast_non_dominated_sort: F, the heap afterwards, and
\* the exception when a dominance test meets an unknown score
fast_non_dominated_sort(h, pop, dirs) ==
    LET h0 == ResetAll(h, pop)
        n == AsList([p \in 1..Len(h) |->
                IF p \in Range(pop) THEN DominanceCount(h0, pop, p, dirs) ELSE 0])
        h1 == AsList([p \in 1..Len(h) |->
                IF p \in Range(pop) /\ n[p] = 0 THEN [h0[p] EXCEPT !.rank = 0]
                ELSE h0[p]])
        F_1 == SelectSeq(pop, LAMBDA p : n[p] = 0)
    IN IF Len(pop) >= 2 /\ \E i \in 1..Len(pop) : HasNone(h[pop[i]].scores)
       THEN [exc |-> "TypeError", heap |-> h0, F |-> <<>>]
       ELSE PeelFronts(h1, pop, <<F_1>>, n, 0, dirs)

\* the loop over the fronts in update: sort_font on each front, extend p_selected
RECURSIVE SelectFronts(_, _, _, _, _)
SelectFronts(h, F, k, p_selected, ps) ==
    IF k > Len(F) THEN [heap |-> h, p_selected |-> p_selected]
    ELSE IF Len(F[k]) = 0 THEN [heap |-> h, p_selected |-> p_selected]
    ELSE LET h1 == crowding_distance_assignment(h, F[k])
             sel == p_selected \o F[k]
         IN IF Len(sel) >= ps THEN [heap |-> h1, p_selected |-> sel]
            ELSE SelectFronts(h1, F, k + 1, sel, ps)

\* update without the final slice p_cmp_sorted[:population_size]
update_NoTruncate(h, pop, challengers, ps, dirs) ==
    LET temp_pop == pop \o challengers
    IN IF Len(pop) < ps THEN [exc |-> "", heap |-> h, val |-> temp_pop]
       ELSE LET s == fast_non_dominated_sort(h, temp_pop, dirs)
            IN IF s.exc # "" THEN [exc |-> s.exc, heap |-> s.heap, val |-> <<>>]
               ELSE LET sel == SelectFronts(s.heap, s.F, 1, <<>>, ps)
                    IN [exc |-> "", heap |-> sel.heap,
                        val |-> SortedReverse(sel.p_selected, CmpKeyLess(sel.heap))]

\* RankAndCrowdSortSurvival.update: the returned list, the heap afterwards, and
\* the exception that ended the call, if any
update(h, pop, challengers, ps, dirs) ==
    LET temp_pop == pop \o challengers
    IN IF Len(pop) < ps THEN [exc |-> "", heap |-> h, val |-> temp_pop]
       ELSE LET s == fast_non_dominated_sort(h, temp_pop, dirs)
            IN IF s.exc # "" THEN [exc |-> s.exc, heap |-> s.heap, val |-> <<>>]
               ELSE LET sel == SelectFronts(s.heap, s.F, 1, <<>>, ps)
                        p_cmp_sorted == SortedReverse(sel.p_selected, CmpKeyLess(sel.heap))
                    IN [exc |-> "", heap |-> sel.heap,
                        val |-> SubSeq(p_cmp_sorted, 1,
                                       IF ps < Len(p_cmp_sorted) THEN ps
                                       ELSE Len(p_cmp_sorted))]

\* find_non_dominated_solu of calc_nondominated_set: "T", "F", or the exception
find_non_dominated_solu(h, population_, indi, dirs) ==
    IF HasNone(h[indi].scores) THEN "F"
    ELSE LET stops == {j \in 1..Len(population_) :
                          /\ population_[j] # indi
                          /\ \/ pareto_raises(h[population_[j]].scores, h[indi].scores)
                             \/ dominate(h, population_[j], indi, dirs)}
         IN IF stops = {} THEN "T"
            ELSE IF pareto_raises(h[population_[SetMin(stops)]].scores, h[indi].scores)
                 THEN "TypeError"
            ELSE "F"

\* RankAndCrowdSortSurvival.calc_nondominated_set
calc_nondominated_set(h, population_, dirs) ==
    IF \E i \in 1..Len(population_) :
          find_non_dominated_solu(h, population_, population_[i], dirs) = "TypeError"
    THEN [exc |-> "TypeError", val |-> <<>>]
    ELSE [exc |-> "",
          val |-> SelectSeq(population_,
                            LAMBDA s : find_non_dominated_solu(h, population_, s, dirs) = "T")]

-----------------------------------------------------------------------------
(* hyperctl: the status files of the jobs of a batch (dao.py) *)

\* what a call returned (exc = "") or raised
Returned(op, exc, val) == [op |-> op, exc |-> exc, val |-> val]

\* the jobs of the batch
Jobs == 1..MaxJobs

\* ShellJob.STATUS_INIT, STATUS_RUNNING, STATUS_SUCCEED, STATUS_FAILED
STATUS_INIT == "init"
STATUS_RUNNING == "running"
STATUS_SUCCEED == "succeed"
STATUS_FAILED == "failed"

\* ShellJob.FINAL_STATUS
FINAL_STATUS == {STATUS_SUCCEED, STATUS_FAILED}

\* the statuses a caller asks for: those of ShellJob and one it does not have
RequestedStatuses ==
    {STATUS_INIT, STATUS_RUNNING, STATUS_SUCCEED, STATUS_FAILED, "unknown"}

\* job.status, read at the entry of change_job_status.  The class ShellJob is
\* not part of the sources at hand; change_job_status records a transition in
\* the status files only, so the status of a job is taken to be what its status
\* files say: a final status if its file exists, else running if the
\* running-status file exists, else init.
ShellJob_status(files) ==
    IF STATUS_FAILED \in files THEN STATUS_FAILED
    ELSE IF STATUS_SUCCEED \in files THEN STATUS_SUCCEED
    ELSE IF STATUS_RUNNING \in files THEN STATUS_RUNNING
    ELSE STATUS_INIT

\* no change_job_status call has been made
NoJobCall == [job |-> 0, next_status |-> "", at |-> "none"]

\* the batch after its jobs were added: no status file exists
JobsCreated ==
    /\ status_files = [job \in Jobs |-> {}]
    /\ job_call = NoJobCall

\* the checks with the test of RUNNING against the current status left out
change_job_status_checks_AnyToRunning(current_status, next_status) ==
    IF next_status = STATUS_INIT THEN "ValueError"
    ELSE IF next_status = STATUS_RUNNING THEN "open"
    ELSE IF next_status \in FINAL_STATUS
         THEN IF current_status # STATUS_RUNNING THEN "ValueError" ELSE "remove"
    ELSE "ValueError"

\* change_job_status, the branches of lines 9-24: "ValueError" if the request is
\* refused, "remove" if the running-status file is deleted before the target
\* file is opened, "open" if the target file is opened at once
change_job_status_checks(current_status, next_status) ==
    IF next_status = STATUS_INIT THEN "ValueError"
    ELSE IF next_status = STATUS_RUNNING
         THEN IF current_status # STATUS_INIT THEN "ValueError" ELSE "open"
    ELSE IF next_status \in FINAL_STATUS
         THEN IF current_status # STATUS_RUNNING THEN "ValueError" ELSE "remove"
    ELSE "ValueError"

\* change_job_status(job, next_status) up to line 24: the checks and, for a final
\* status, os.remove of the running-status file.  The status files are read by
\* whoever asks for job.status, so the state between the two file operations of
\* one call is a state of its own.  (A job in RUNNING has its running-status
\* file, so os.remove finds it.)
change_job_status(job, next_status) ==
    /\ job_call.at # "open"
    /\ \E check \in {change_job_status_checks(ShellJob_status(status_files[job]),
                                              next_status)} :
          /\ status_files' = IF check = "remove"
                             THEN [status_files EXCEPT ![job] = @ \ {STATUS_RUNNING}]
                             ELSE status_files
          /\ job_call' = [job |-> job, next_status |-> next_status,
                          at |-> IF check = "ValueError" THEN "raised" ELSE "open"]
          /\ ret' = IF check = "ValueError"
                    THEN Returned("change_job_status", "ValueError", <<>>)
                    ELSE ret
    /\ UNCHANGED <<survival, directions, population_size, heap, history, population, fronts>>
    /\ UNCHANGED tournamentVars

\* change_job_status, lines 26-27: the target status file is created and the call
\* returns
change_job_status_open ==
    /\ job_call.at = "open"
    /\ status_files' = [status_files EXCEPT ![job_call.job] = @ \cup {job_call.next_status}]
    /\ job_call' = [job_call EXCEPT !.at = "returned"]
    /\ ret' = Returned("change_job_status", "", <<>>)
    /\ UNCHANGED <<survival, directions, population_size, heap, history, population, fronts>>
    /\ UNCHANGED tournamentVars

-----------------------------------------------------------------------------
(* NSGAIISearcher *)

\* the score vectors a run records: the two diagonals of the grid that hold the
\* mutually non-dominated vectors and the vectors next to them, and one vector
\* of unknown scores
KnownScores ==
    {v \in (0..MaxScore) \X (0..MaxScore) :
        v[1] + v[2] >= MaxScore /\ v[1] + v[2] <= MaxScore + 1}

UnknownScores == <<NoneScore, NoneScore>>

ScoreVectors == KnownScores \cup {UnknownScores}

DirectionChoices == {<<"min", "min">>, <<"min", "max">>}

\* binary_tournament_select is not running
TournamentIdle ==
    /\ pc = "idle"
    /\ indi_inx = <<0, 0>>
    /\ p1 = 0
    /\ p2 = 0
    /\ first_inx = 0
    /\ second_inx = 0
    /\ try_times = 0

\* NSGAIISearcher.create_survival
create_survival == [cls |-> "RankAndCrowdSortSurvival"]

\* NSGAIISearcher.__init__
Init ==
    /\ directions \in DirectionChoices
    /\ survival = create_survival
    /\ population_size \in 2..MaxPopSize
    /\ heap = <<>>
    /\ history = <<>>
    /\ population = <<>>
    /\ ret = Returned("__init__", "", <<>>)
    /\ fronts = <<>>
    /\ TournamentIdle
    /\ JobsCreated

\* update_result that records the individual only when survival kept it
update_result_KeptOnly(result) ==
    /\ Len(history) < MaxHist
    /\ \E r \in {update(Append(heap, NSGAIndividual(result)), population,
                        <<Len(heap) + 1>>, population_size, directions)} :
          /\ history' = IF r.exc = "" /\ (Len(heap) + 1) \in Range(r.val)
                        THEN Append(history, Len(heap) + 1) ELSE history
          /\ heap' = r.heap
          /\ population' = IF r.exc = "" THEN r.val ELSE population
          /\ ret' = Returned("update_result", r.exc, <<>>)
    /\ UNCHANGED <<survival, directions, population_size, fronts>>
    /\ UNCHANGED tournamentVars
    /\ UNCHANGED jobVars

\* NSGAIISearcher.update_result(space, result)
update_result(result) ==
    /\ Len(history) < MaxHist
    /\ \E r \in {update(Append(heap, NSGAIndividual(result)), population,
                        <<Len(heap) + 1>>, population_size, directions)} :
          /\ history' = Append(history, Len(heap) + 1)
          /\ heap' = r.heap
          /\ population' = IF r.exc = "" THEN r.val ELSE population
          /\ ret' = Returned("update_result", r.exc, <<>>)
    /\ UNCHANGED <<survival, directions, population_size, fronts>>
    /\ UNCHANGED tournamentVars
    /\ UNCHANGED jobVars

\* NSGAIISearcher.get_nondominated_set
get_nondominated_set ==
    /\ \E r \in {calc_nondominated_set(heap, history, directions)} :
          ret' = Returned("get_nondominated_set", r.exc, r.val)
    /\ UNCHANGED <<survival, directions, population_size, heap, history, population, fronts>>
    /\ UNCHANGED tournamentVars
    /\ UNCHANGED jobVars

\* NSGAIISearcher.get_best: the dna of every member of get_nondominated_set()
get_best ==
    /\ \E r \in {calc_nondominated_set(heap, history, directions)} :
          ret' = Returned("get_best", r.exc, r.val)
    /\ UNCHANGED <<survival, directions, population_size, heap, history, population, fronts>>
    /\ UNCHANGED tournamentVars
    /\ UNCHANGED jobVars

Next ==
    \/ \E result \in ScoreVectors : update_result(result)
    \/ get_nondominated_set
    \/ get_best

Spec == Init /\ [][Next]_vars

-----------------------------------------------------------------------------
(* NSGAIISearcher.binary_tournament_select, one step per draw *)

\* random_state.randint(low, high): the integers it can return (high excluded)
randint(low, high) == low..(high - 1)

\* randint(low, high, size=2)
randint_pairs(low, high) == randint(low, high) \X randint(low, high)

\* "first_inx in indi_inx"
InPair(x, pair) == x = pair[1] \/ x = pair[2]

\* lines 205-214: draw the first pair and keep the better of the two
select_first ==
    /\ pc = "start"
    /\ IF randint(0, Len(population) - 1) = {}
       THEN /\ pc' = "done"
            /\ ret' = Returned("binary_tournament_select", "ValueError", <<>>)
            /\ UNCHANGED <<indi_inx, p1, p2, first_inx>>
       ELSE \E pair \in randint_pairs(0, Len(population) - 1) :
               /\ indi_inx' = pair
               /\ p1' = pair[1]
               /\ p2' = pair[2]
               /\ first_inx' =
                     IF cmp_operator(heap[population[pair[1] + 1]],
                                     heap[population[pair[2] + 1]]) >= 0
                     THEN pair[1] ELSE pair[2]
               /\ pc' = "second"
               /\ UNCHANGED ret
    /\ UNCHANGED <<second_inx, try_times>>
    /\ UNCHANGED <<survival, directions, population_size, heap, history, population, fronts>>
    /\ UNCHANGED jobVars

\* lines 217-218: the first draw for the second parent
draw_second ==
    /\ pc = "second"
    /\ \E pair \in randint_pairs(0, Len(population) - 1) : indi_inx' = pair
    /\ try_times' = 0
    /\ pc' = "while"
    /\ UNCHANGED <<p1, p2, first_inx, second_inx>>
    /\ UNCHANGED searcherVars
    /\ UNCHANGED jobVars

\* the while loop without its retry cap
resample_NoCap ==
    /\ pc = "while"
    /\ InPair(first_inx, indi_inx)
    /\ \E pair \in randint_pairs(0, Len(population) - 1) : indi_inx' = pair
    /\ try_times' = try_times + 1
    /\ UNCHANGED <<pc, ret>>
    /\ UNCHANGED <<p1, p2, first_inx, second_inx>>
    /\ UNCHANGED <<survival, directions, population_size, heap, history, population, fronts>>
    /\ UNCHANGED jobVars

\* lines 219-223: one pass of the while loop
resample ==
    /\ pc = "while"
    /\ InPair(first_inx, indi_inx)
    /\ IF try_times > RetryCap
       THEN /\ pc' = "done"
            /\ ret' = Returned("binary_tournament_select", "RuntimeError", <<>>)
            /\ UNCHANGED <<indi_inx, try_times>>
       ELSE /\ \E pair \in randint_pairs(0, Len(population) - 1) : indi_inx' = pair
            /\ try_times' = try_times + 1
            /\ UNCHANGED <<pc, ret>>
    /\ UNCHANGED <<p1, p2, first_inx, second_inx>>
    /\ UNCHANGED <<survival, directions, population_size, heap, history, population, fronts>>
    /\ UNCHANGED jobVars

\* lines 225-230: pick the second parent and return both
select_second ==
    /\ pc = "while"
    /\ ~InPair(first_inx, indi_inx)
    /\ second_inx' =
          IF cmp_operator(heap[population[p1 + 1]], heap[population[p2 + 1]]) >= 0
          THEN indi_inx[1] ELSE indi_inx[2]
    /\ ret' = Returned("binary_tournament_select", "",
                       <<population[first_inx + 1], population[second_inx' + 1]>>)
    /\ pc' = "done"
    /\ UNCHANGED <<indi_inx, p1, p2, first_inx, try_times>>
    /\ UNCHANGED <<survival, directions, population_size, heap, history, population, fronts>>
    /\ UNCHANGED jobVars

\* a population of n individuals as update leaves it when every recorded vector
\* dominates the next: ranks 0..n-1, best first, every front a single boundary
ChainHeap(n) ==
    [i \in 1..n |-> [scores |-> <<i - 1, i - 1>>, rank |-> i - 1, distance |-> Inf]]

InitTournament ==
    /\ directions = <<"min", "min">>
    /\ survival = create_survival
    /\ population_size \in 1..MaxTourPop
    /\ heap = ChainHeap(population_size)
    /\ history = [i \in 1..population_size |-> i]
    /\ population = [i \in 1..population_size |-> i]
    /\ ret = Returned("update_result", "", <<>>)
    /\ fronts = <<>>
    /\ pc = "start"
    /\ indi_inx = <<0, 0>>
    /\ p1 = 0
    /\ p2 = 0
    /\ first_inx = 0
    /\ second_inx = 0
    /\ try_times = 0
    /\ JobsCreated

NextTournament ==
    \/ select_first
    \/ draw_second
    \/ resample
    \/ select_second

SpecTournament == InitTournament /\ [][NextTournament]_vars

-----------------------------------------------------------------------------
(* NSGAIISearcher.sample *)

\* binary_tournament_select as one call: every result it can end with.  The
\* first pair decides first_inx; any later pair without first_inx ends the loop,
\* the test on the FIRST pair (p1, p2) picks the index taken from it; the loop
\* can also draw pairs with first_inx until the cap raises RuntimeError.
binary_tournament_select(h, pop) ==
    IF randint(0, Len(pop) - 1) = {}
    THEN {[exc |-> "ValueError", val |-> <<>>]}
    ELSE UNION {
        LET first == IF cmp_operator(h[pop[a[1] + 1]], h[pop[a[2] + 1]]) >= 0
                     THEN a[1] ELSE a[2]
            Second(b) == IF cmp_operator(h[pop[a[1] + 1]], h[pop[a[2] + 1]]) >= 0
                         THEN b[1] ELSE b[2]
        IN {[exc |-> "RuntimeError", val |-> <<>>]}
           \cup {[exc |-> "", val |-> <<pop[first + 1], pop[Second(b) + 1]>>] :
                    b \in {c \in randint_pairs(0, Len(pop) - 1) : ~InPair(first, c)}}
        : a \in randint_pairs(0, Len(pop) - 1)}

\* what the external operators can do when called: return or raise
OperatorOutcomes == {"returns", "raises"}

\* what sample returns: where the candidate comes from, the two selected
\* parents, and what recombination.do and the deciding mutation.do call did
Candidate(origin, parent1, parent2, recombination, mutation) ==
    <<origin, parent1, parent2, recombination, mutation>>

\* sample that never takes the random sampler
sample_NoFilling ==
    /\ \E t \in binary_tournament_select(heap, population) :
          ret' = Returned("sample", t.exc, <<>>)
    /\ UNCHANGED <<survival, directions, population_size, heap, history, population, fronts>>
    /\ UNCHANGED tournamentVars
    /\ UNCHANGED jobVars

\* sample whose fallback mutates the second parent
sample_FallbackSecondParent ==
    /\ Len(population) >= population_size
    /\ \E t \in binary_tournament_select(heap, population) :
          /\ t.exc = ""
          /\ ret' = Returned("sample", "",
                       Candidate("mutation_proba_1", t.val[2], t.val[2], "raises", "returns"))
    /\ UNCHANGED <<survival, directions, population_size, heap, history, population, fronts>>
    /\ UNCHANGED tournamentVars
    /\ UNCHANGED jobVars

\* NSGAIISearcher.sample
sample ==
    /\ IF Len(population) < population_size
       THEN ret' = Returned("sample", "",
                       Candidate("_random_sample", 0, 0, "not called", "not called"))
       ELSE \E t \in binary_tournament_select(heap, population) :
               IF t.exc # ""
               THEN ret' = Returned("sample", t.exc, <<>>)
               ELSE \E recombination \in OperatorOutcomes, mutation \in OperatorOutcomes :
                       \* mutation: the call inside try when recombination returned,
                       \* the call of the except branch otherwise
                       \/ /\ recombination = "returns"
                          /\ mutation = "returns"
                          /\ ret' = Returned("sample", "",
                                Candidate("recombination_mutation", t.val[1], t.val[2],
                                          recombination, mutation))
                       \/ /\ recombination = "returns"
                          /\ mutation = "raises"
                          /\ \E fallback \in OperatorOutcomes :
                                ret' = Returned("sample",
                                    IF fallback = "raises" THEN "Exception" ELSE "",
                                    Candidate("mutation_proba_1", t.val[1], t.val[2],
                                              recombination, fallback))
                       \/ /\ recombination = "raises"
                          /\ ret' = Returned("sample",
                                IF mutation = "raises" THEN "Exception" ELSE "",
                                Candidate("mutation_proba_1", t.val[1], t.val[2],
                                          recombination, mutation))
    /\ UNCHANGED <<survival, directions, population_size, heap, history, population, fronts>>
    /\ UNCHANGED tournamentVars
    /\ UNCHANGED jobVars

\* the score vectors recorded between samples: the mutually non-dominated
\* diagonal under (min, min), a chain under (min, max)
SampleScores == {v \in KnownScores : v[1] + v[2] = MaxScore}

\* NSGAIISearcher.__init__; the tournament returns parents from three individuals on
InitSample ==
    /\ directions \in DirectionChoices
    /\ survival = create_survival
    /\ population_size \in 2..(MaxPopSize + 1)
    /\ heap = <<>>
    /\ history = <<>>
    /\ population = <<>>
    /\ ret = Returned("__init__", "", <<>>)
    /\ fronts = <<>>
    /\ TournamentIdle
    /\ JobsCreated

NextSample ==
    \/ \E result \in SampleScores : update_result(result)
    \/ sample

SpecSample == InitSample /\ [][NextSample]_vars

-----------------------------------------------------------------------------
(* RankAndCrowdSortSurvival called directly, on any list of individuals *)

\* every list of at most n fresh individuals with known scores
RECURSIVE IndividualLists(_)
IndividualLists(n) ==
    IF n = 0 THEN {<<>>}
    ELSE LET shorter == IndividualLists(n - 1)
         IN shorter \cup {Append(l, NSGAIndividual(v)) :
                             l \in {x \in shorter : Len(x) = n - 1}, v \in KnownScores}

\* the list of references lo..hi
Refs(lo, hi) == [i \in 1..(hi - lo + 1) |-> lo + i - 1]

\* the challengers of the direct call: every object that is not in population
Challengers == Refs(Len(population) + 1, Len(heap))

InitSurvival ==
    /\ directions \in DirectionChoices
    /\ survival = create_survival
    /\ population_size \in 2..MaxPopSize
    /\ heap \in IndividualLists(MaxList)
    /\ \E j \in 0..population_size : j <= Len(heap) /\ population = Refs(1, j)
    /\ history = <<>>
    /\ ret = Returned("__init__", "", <<>>)
    /\ fronts = <<>>
    /\ TournamentIdle
    /\ JobsCreated

\* survival.update(pop=population, challengers=[the other individuals])
call_update ==
    /\ ret.op = "__init__"
    /\ Challengers # <<>>
    /\ \E r \in {update(heap, population, Challengers, population_size, directions)} :
          /\ heap' = r.heap
          /\ ret' = Returned("update", r.exc, r.val)
    /\ UNCHANGED <<survival, directions, population_size, history, population, fronts>>
    /\ UNCHANGED tournamentVars
    /\ UNCHANGED jobVars

\* survival.fast_non_dominated_sort(population + challengers)
call_fast_non_dominated_sort ==
    /\ ret.op = "__init__"
    /\ \E s \in {fast_non_dominated_sort(heap, Refs(1, Len(heap)), directions)} :
          /\ heap' = s.heap
          /\ fronts' = s.F
          /\ ret' = Returned("fast_non_dominated_sort", s.exc, <<>>)
    /\ UNCHANGED <<survival, directions, population_size, history, population>>
    /\ UNCHANGED tournamentVars
    /\ UNCHANGED jobVars

\* RankAndCrowdSortSurvival.crowding_distance_assignment(I) on fresh individuals
call_crowding_distance_assignment ==
    /\ ret.op = "__init__"
    /\ heap # <<>>
    /\ heap' = crowding_distance_assignment(heap, Refs(1, Len(heap)))
    /\ ret' = Returned("crowding_distance_assignment", "", Refs(1, Len(heap)))
    /\ UNCHANGED <<survival, directions, population_size, history, population, fronts>>
    /\ UNCHANGED tournamentVars
    /\ UNCHANGED jobVars

NextSurvival ==
    \/ call_update
    \/ call_fast_non_dominated_sort
    \/ call_crowding_distance_assignment

SpecSurvival == InitSurvival /\ [][NextSurvival]_vars

-----------------------------------------------------------------------------
(* RDominanceSurvival: arithmetic of the weighted distance *)

\* The weighted Euclidean distance of lines 363 is a square root.  It is kept
\* exactly, under kind "sqrt", as the integer RScale * d * d: weights are
\* numerators over n_objectives and every quotient (score - ref) / extent has
\* a denominator that divides ExtentLCM.  The specials +inf and NaN are the two
\* kinds used for the crowding distance; a "fin" value is the -1.0 of reset.

\* len(objectives)
n_objectives == 2

\* the score vectors a run of the R-NSGA-II model records
RScoreVectors == {<<0, 0>>, <<0, 3>>, <<1, 0>>, <<1, 2>>, <<2, 2>>, <<3, 0>>}

\* ref_point: the default [0.0] * n_objectives, and a point inside the scores
RefPoints == {<<0, 0>>, <<1, 2>>}

\* weights, as numerators over n_objectives: the default [1 / n_objectives] *
\* n_objectives, and all weight on the first objective
WeightChoices == {<<1, 1>>, <<2, 0>>}

\* dominance_threshold as <<numerator, denominator>>: the default 0.3, and 0.1
ThresholdChoices == {<<3, 10>>, <<1, 10>>}

\* the least common multiple of every value scores_extend can take
ExtentLCM ==
    LCMUpTo(SetMax({v[i] - u[i] : u \in RScoreVectors, v \in RScoreVectors,
                                  i \in 1..n_objectives}))

\* a distance d of kind "sqrt" is kept as the integer RScale * d * d
RScale == n_objectives * ExtentLCM * ExtentLCM

\* floor of the square root of n, for 0 <= n < 46340 * 46340, by bisection
RECURSIVE ISqrtBetween(_, _, _)
ISqrtBetween(n, lo, hi) ==
    IF hi - lo <= 1 THEN lo
    ELSE LET mid == (lo + hi) \div 2
         IN IF mid * mid <= n THEN ISqrtBetween(n, mid, hi)
            ELSE ISqrtBetween(n, lo, mid)

ISqrt(n) == ISqrtBetween(n, 0, 46340)

\* 1000 * sqrt(v) rounded down
RootFloor(v) == ISqrt(v * 1000 * 1000)

\* 1000 * sqrt(v) rounded up, given its floor f
RootCeil(v, f) == IF f * f = v * 1000 * 1000 THEN f ELSE f + 1

\* "c1*sqrt(v1) + c2*sqrt(v2) + c3*sqrt(v3) + c4*sqrt(v4) < 0", decided exactly:
\* terms under the same root are added first, each remaining root is enclosed
\* between its floor and its ceiling at 1/1000, and the sign is read off the
\* enclosure.  The value is defined only when the enclosure decides it.
SumOfRootsNegative(c, v) ==
    LET floors == [i \in 1..4 |-> RootFloor(v[i])]
        First(i) == \A j \in 1..(i - 1) : v[j] # v[i]
        Coef(i) == (IF v[1] = v[i] THEN c[1] ELSE 0) + (IF v[2] = v[i] THEN c[2] ELSE 0)
                   + (IF v[3] = v[i] THEN c[3] ELSE 0) + (IF v[4] = v[i] THEN c[4] ELSE 0)
        Low(i) == IF ~First(i) THEN 0
                  ELSE IF Coef(i) >= 0 THEN Coef(i) * floors[i]
                  ELSE Coef(i) * RootCeil(v[i], floors[i])
        High(i) == IF ~First(i) THEN 0
                   ELSE IF Coef(i) >= 0 THEN Coef(i) * RootCeil(v[i], floors[i])
                   ELSE Coef(i) * floors[i]
        lowest == Low(1) + Low(2) + Low(3) + Low(4)
        highest == High(1) + High(2) + High(3) + High(4)
    IN CHOOSE b \in BOOLEAN : (b => highest < 0) /\ (~b => lowest >= 0)

\* a < b, a == b on distances of the kinds "fin", "sqrt", "inf", "nan"
RDistLT(a, b) ==
    IF a.k = "nan" \/ b.k = "nan" THEN FALSE
    ELSE IF a.k = "inf" THEN FALSE
    ELSE IF b.k = "inf" THEN TRUE
    ELSE IF a.k = "fin" /\ b.k = "fin" THEN a.v < b.v
    ELSE IF a.k = "fin" THEN a.v < 0
    ELSE IF b.k = "fin" THEN FALSE
    ELSE a.v < b.v

RDistEQ(a, b) ==
    IF a.k = "nan" \/ b.k = "nan" THEN FALSE ELSE a = b

-----------------------------------------------------------------------------
(* RDominanceSurvival *)

\* pareto_dominate called with directions=None: every objective is minimised
default_directions(x1) == [i \in 1..Len(x1) |-> "min"]

\* scores_extend[m] of line 358
scores_extend(h, pop, m) ==
    LET col == {h[pop[i]].scores[m] : i \in 1..Len(pop)}
    IN SetMax(col) - SetMin(col)

\* np.square((score - ref) / extend) * weight for one objective: a division by
\* an extend of zero gives NaN (0/0) or an infinity, whose square is +inf, and
\* +inf * 0 is NaN
WeightedSquare(score, ref, extend, weight) ==
    IF extend = 0
    THEN (IF score = ref \/ weight = 0 THEN NaN ELSE Inf)
    ELSE [k |-> "sqrt",
          v |-> weight * (score - ref) * (score - ref)
                       * (ExtentLCM \div extend) * (ExtentLCM \div extend)]

\* np.sum over the objectives, from objective m on; np.sqrt keeps the kind
RECURSIVE SumSquares(_, _, _, _, _)
SumSquares(h, pop, x, surv, m) ==
    IF m > Len(h[x].scores) THEN [k |-> "sqrt", v |-> 0]
    ELSE LET a == WeightedSquare(h[x].scores[m], surv.ref_point[m],
                                 scores_extend(h, pop, m), surv.weights[m])
             b == SumSquares(h, pop, x, surv, m + 1)
         IN IF a.k = "nan" \/ b.k = "nan" THEN NaN
            ELSE IF a.k = "inf" \/ b.k = "inf" THEN Inf
            ELSE [k |-> "sqrt", v |-> a.v + b.v]

\* lines 360-364: every individual of pop gets its distance to the reference point
AssignDistances(h, pop, surv) ==
    AsList([x \in 1..Len(h) |->
               IF x \in Range(pop)
               THEN [h[x] EXCEPT !.distance = SumSquares(h, pop, x, surv, 1)]
               ELSE h[x]])

\* lines 366-368: (ind1.distance - ind2.distance) / dist_extent < -threshold.
\* One NaN among the distances makes np.max NaN; the distances of one call are
\* all infinite or all finite, and inf - inf is NaN; a dist_extent of 0 means
\* that all distances are equal, and 0 / 0 is NaN.  A comparison with NaN is False,
\* and so is the comparison when ind1 is not the closer one (the gap is >= 0).
DistanceGapBelow(h, ind1, ind2, pop, threshold) ==
    LET ds == {h[pop[i]].distance : i \in 1..Len(pop)}
        vs == {d.v : d \in ds}
    IN IF \E d \in ds : d.k # "sqrt" THEN FALSE
       ELSE IF SetMax(vs) = SetMin(vs) THEN FALSE
       ELSE IF h[ind1].distance.v >= h[ind2].distance.v THEN FALSE
       ELSE SumOfRootsNegative(
                <<threshold[2], -threshold[2], threshold[1], -threshold[1]>>,
                <<h[ind1].distance.v, h[ind2].distance.v, SetMax(vs), SetMin(vs)>>)

\* the pair reaches line 356: neither Pareto test of lines 350-354 returned
ReachesDistance(h, ind1, ind2) ==
    /\ ~pareto_dominate(h[ind1].scores, h[ind2].scores, default_directions(h[ind1].scores))
    /\ ~pareto_dominate(h[ind2].scores, h[ind1].scores, default_directions(h[ind2].scores))

\* the value RDominanceSurvival.dominate(ind1, ind2, pop) returns; h1 is the heap
\* with the distances lines 360-364 assign over pop
DominateValue(h1, ind1, ind2, pop, surv) ==
    IF pareto_dominate(h1[ind1].scores, h1[ind2].scores, default_directions(h1[ind1].scores))
    THEN TRUE
    ELSE IF pareto_dominate(h1[ind2].scores, h1[ind1].scores,
                            default_directions(h1[ind2].scores))
    THEN FALSE
    ELSE DistanceGapBelow(h1, ind1, ind2, pop, surv.threshold)

\* RDominanceSurvival.dominate(ind1, ind2, pop): the value returned and the heap
\* afterwards
RDominanceSurvival_dominate(h, ind1, ind2, pop, surv) ==
    LET h1 == AssignDistances(h, pop, surv)
    IN [val |-> DominateValue(h1, ind1, ind2, pop, surv),
        heap |-> IF ReachesDistance(h, ind1, ind2) THEN h1 ELSE h]

\* RDominanceSurvival.sort_font: sorted(front, key=lambda v: v.distance)
RDominanceSurvival_sort_font(h, front) ==
    ListSort(front, [x \in 1..Len(h) |-> [y \in 1..Len(h) |->
                        RDistLT(h[x].distance, h[y].distance)]])

\* RDominanceSurvival.cmp_operator
RDominanceSurvival_cmp_operator(s1, s2) ==
    IF s1.rank < s2.rank THEN 1
    ELSE IF s1.rank = s2.rank
         THEN IF RDistLT(s1.distance, s2.distance) THEN 1
              ELSE IF RDistEQ(s1.distance, s2.distance) THEN 0
              ELSE -1
    ELSE -1

\* cmp_to_key(RDominanceSurvival.cmp_operator)
RCmpKeyLess(h) ==
    [x \in 1..Len(h) |-> [y \in 1..Len(h) |->
        RDominanceSurvival_cmp_operator(h[x], h[y]) < 0]]

\* The methods RDominanceSurvival inherits, run with its dominate, sort_font and
\* cmp_operator.  dominate(p, q, pop) returns the same value whenever it is called
\* within one sort (it reads scores only), and each call that reaches line 356
\* writes the same distances to every individual of pop.

\* the q's visited by "for p in F[i]: for q in p.S", in order; S[p] is p.S
RECURSIVE RVisitList(_, _)
RVisitList(S, front) ==
    IF front = <<>> THEN <<>>
    ELSE S[Head(front)] \o RVisitList(S, Tail(front))

\* the "while True" loop of fast_non_dominated_sort, from front i (0-based)
RECURSIVE RPeelFronts(_, _, _, _, _)
RPeelFronts(h, S, F, n, i) ==
    LET st == Decrement(RVisitList(S, F[i + 1]), [n |-> n, heap |-> h, Q |-> <<>>], i)
    IN IF st.Q = <<>> THEN [exc |-> "", heap |-> st.heap, F |-> F]
       ELSE RPeelFronts(st.heap, S, Append(F, st.Q), st.n, i + 1)

\* fast_non_dominated_sort of an RDominanceSurvival
RDominanceSurvival_fast_non_dominated_sort(h, pop, surv) ==
    LET h0 == ResetAll(h, pop)
        members == Range(pop)
        assigned == AssignDistances(h0, pop, surv)
        dom == [p \in members |-> [q \in members |->
                   p # q /\ DominateValue(assigned, p, q, pop, surv)]]
        hd == IF \E p \in members, q \in members : p # q /\ ReachesDistance(h0, p, q)
              THEN assigned ELSE h0
        S == [p \in members |-> SelectSeq(pop, LAMBDA q : dom[p][q])]
        n == AsList([p \in 1..Len(h) |->
                IF p \in members THEN Cardinality({q \in members : dom[q][p]}) ELSE 0])
        h1 == AsList([p \in 1..Len(h) |->
                IF p \in members /\ n[p] = 0 THEN [hd[p] EXCEPT !.rank = 0] ELSE hd[p]])
        F_1 == SelectSeq(pop, LAMBDA p : n[p] = 0)
    IN IF Len(pop) >= 2 /\ \E i \in 1..Len(pop) : HasNone(h[pop[i]].scores)
       THEN [exc |-> "TypeError", heap |-> h0, F |-> <<>>]
       ELSE RPeelFronts(h1, S, <<F_1>>, n, 0)

\* the loop over the fronts in update, with RDominanceSurvival.sort_font
RECURSIVE RSelectFronts(_, _, _, _, _)
RSelectFronts(h, F, k, p_selected, ps) ==
    IF k > Len(F) THEN p_selected
    ELSE IF Len(F[k]) = 0 THEN p_selected
    ELSE LET sel == p_selected \o RDominanceSurvival_sort_font(h, F[k])
         IN IF Len(sel) >= ps THEN sel
            ELSE RSelectFronts(h, F, k + 1, sel, ps)

\* update of an RDominanceSurvival
RDominanceSurvival_update(h, pop, challengers, ps, surv) ==
    LET temp_pop == pop \o challengers
    IN IF Len(pop) < ps THEN [exc |-> "", heap |-> h, val |-> temp_pop]
       ELSE LET s == RDominanceSurvival_fast_non_dominated_sort(h, temp_pop, surv)
            IN IF s.exc # "" THEN [exc |-> s.exc, heap |-> s.heap, val |-> <<>>]
               ELSE LET p_selected == RSelectFronts(s.heap, s.F, 1, <<>>, ps)
                        p_cmp_sorted == SortedReverse(p_selected, RCmpKeyLess(s.heap))
                    IN [exc |-> "", heap |-> s.heap,
                        val |-> SubSeq(p_cmp_sorted, 1,
                                       IF ps < Len(p_cmp_sorted) THEN ps
                                       ELSE Len(p_cmp_sorted))]

\* find_non_dominated_solu of an RDominanceSurvival: the positions of population_
\* the loop visits for indi, up to the first one that ends it; assigned is the
\* heap with the distances that dominate assigns over population_
RVisited(h, assigned, population_, indi, surv) ==
    LET anyNone == \E j \in 1..Len(population_) : HasNone(h[population_[j]].scores)
        Raises(j) == \/ pareto_raises(h[population_[j]].scores, h[indi].scores)
                     \/ anyNone /\ ReachesDistance(h, population_[j], indi)
        stops == {j \in 1..Len(population_) :
                     /\ population_[j] # indi
                     /\ \/ Raises(j)
                        \/ DominateValue(assigned, population_[j], indi, population_, surv)}
    IN IF HasNone(h[indi].scores) THEN [last |-> 0, result |-> "F"]
       ELSE IF stops = {} THEN [last |-> Len(population_), result |-> "T"]
       ELSE [last |-> SetMin(stops),
             result |-> IF Raises(SetMin(stops)) THEN "TypeError" ELSE "F"]

\* calc_nondominated_set of an RDominanceSurvival, given the heap `assigned` with
\* the distances that dominate assigns over population_
CalcWithDistances(h, assigned, population_, surv) ==
    LET visit == [i \in 1..Len(population_) |->
                     RVisited(h, assigned, population_, population_[i], surv)]
        failed == {i \in 1..Len(population_) : visit[i].result = "TypeError"}
        upto == IF failed = {} THEN Len(population_) ELSE SetMin(failed)
        written == \E i \in 1..upto : \E j \in 1..visit[i].last :
                      /\ population_[j] # population_[i]
                      /\ ~(i \in failed /\ j = visit[i].last)
                      /\ ReachesDistance(h, population_[j], population_[i])
        h1 == IF written THEN assigned ELSE h
    IN IF failed # {} THEN [exc |-> "TypeError", heap |-> h1, val |-> <<>>]
       ELSE [exc |-> "", heap |-> h1,
             val |-> SelectSeq(population_,
                        LAMBDA x : \E i \in 1..Len(population_) :
                                      population_[i] = x /\ visit[i].result = "T")]

\* calc_nondominated_set of an RDominanceSurvival: the list returned, the heap
\* afterwards, and the exception that ended the call, if any
RDominanceSurvival_calc_nondominated_set(h, population_, surv) ==
    CHOOSE r \in {CalcWithDistances(h, assigned, population_, surv) :
                     assigned \in {AssignDistances(h, population_, surv)}} : TRUE

-----------------------------------------------------------------------------
(* RNSGAIISearcher *)

\* RNSGAIISearcher.create_survival
RNSGAIISearcher_create_survival(ref_point, weights, dominance_threshold) ==
    [cls |-> "RDominanceSurvival", ref_point |-> ref_point, weights |-> weights,
     threshold |-> dominance_threshold]

\* RNSGAIISearcher.__init__
InitRNSGAII ==
    /\ directions \in DirectionChoices
    /\ \E ref_point \in RefPoints, weights \in WeightChoices,
          dominance_threshold \in ThresholdChoices :
          survival = RNSGAIISearcher_create_survival(ref_point, weights, dominance_threshold)
    /\ population_size \in 2..MaxPopSize
    /\ heap = <<>>
    /\ history = <<>>
    /\ population = <<>>
    /\ ret = Returned("__init__", "", <<>>)
    /\ fronts = <<>>
    /\ TournamentIdle
    /\ JobsCreated

\* update_result(space, result) of an RNSGAIISearcher
RNSGAIISearcher_update_result(result) ==
    /\ Len(history) < MaxHist - 1
    /\ \E r \in {RDominanceSurvival_update(Append(heap, NSGAIndividual(result)), population,
                                           <<Len(heap) + 1>>, population_size, survival)} :
          /\ history' = Append(history, Len(heap) + 1)
          /\ heap' = r.heap
          /\ population' = IF r.exc = "" THEN r.val ELSE population
          /\ ret' = Returned("update_result", r.exc, <<>>)
    /\ UNCHANGED <<survival, directions, population_size, fronts>>
    /\ UNCHANGED tournamentVars
    /\ UNCHANGED jobVars

\* get_nondominated_set() of an RNSGAIISearcher
RNSGAIISearcher_get_nondominated_set ==
    /\ \E r \in {RDominanceSurvival_calc_nondominated_set(heap, history, survival)} :
          /\ heap' = r.heap
          /\ ret' = Returned("get_nondominated_set", r.exc, r.val)
    /\ UNCHANGED <<survival, directions, population_size, history, population, fronts>>
    /\ UNCHANGED tournamentVars
    /\ UNCHANGED jobVars

\* get_best() of an RNSGAIISearcher (inherited): the dna of every member of
\* get_nondominated_set(), whose distances are written on the way
RNSGAIISearcher_get_best ==
    /\ \E r \in {RDominanceSurvival_calc_nondominated_set(heap, history, survival)} :
          /\ heap' = r.heap
          /\ ret' = Returned("get_best", r.exc, r.val)
    /\ UNCHANGED <<survival, directions, population_size, history, population, fronts>>
    /\ UNCHANGED tournamentVars
    /\ UNCHANGED jobVars

NextRNSGAII ==
    \/ \E result \in RScoreVectors : RNSGAIISearcher_update_result(result)
    \/ RNSGAIISearcher_get_nondominated_set
    \/ RNSGAIISearcher_get_best

SpecRNSGAII == InitRNSGAII /\ [][NextRNSGAII]_vars

-----------------------------------------------------------------------------
(* RDominanceSurvival called directly, on any list of individuals *)

\* every list of at most n fresh individuals with scores of RScoreVectors
RECURSIVE RIndividualLists(_)
RIndividualLists(n) ==
    IF n = 0 THEN {<<>>}
    ELSE LET shorter == RIndividualLists(n - 1)
         IN shorter \cup {Append(l, NSGAIndividual(v)) :
                             l \in {x \in shorter : Len(x) = n - 1}, v \in RScoreVectors}

\* RDominanceSurvival.__init__, and a list of at most population_size + 1 fresh
\* individuals of which the first population_size are the population
InitRSurvival ==
    /\ directions \in DirectionChoices
    /\ \E ref_point \in RefPoints, weights \in WeightChoices,
          dominance_threshold \in ThresholdChoices :
          survival = RNSGAIISearcher_create_survival(ref_point, weights, dominance_threshold)
    /\ population_size \in 2..MaxPopSize
    /\ heap \in RIndividualLists(population_size + 1)
    /\ population = Refs(1, IF Len(heap) < population_size THEN Len(heap)
                            ELSE population_size)
    /\ history = <<>>
    /\ ret = Returned("__init__", "", <<>>)
    /\ fronts = <<>>
    /\ TournamentIdle
    /\ JobsCreated

\* survival.dominate(ind1, ind2, pop=[every individual])
call_dominate ==
    /\ ret.op = "__init__"
    /\ \E ind1 \in 1..Len(heap), ind2 \in 1..Len(heap) :
          /\ ind1 # ind2
          /\ \E r \in {RDominanceSurvival_dominate(heap, ind1, ind2,
                                                   Refs(1, Len(heap)), survival)} :
                /\ heap' = r.heap
                /\ ret' = Returned("dominate", "", <<ind1, ind2, r.val>>)
    /\ UNCHANGED <<survival, directions, population_size, history, population, fronts>>
    /\ UNCHANGED tournamentVars
    /\ UNCHANGED jobVars

\* survival.fast_non_dominated_sort([every individual])
call_r_fast_non_dominated_sort ==
    /\ ret.op = "__init__"
    /\ \E s \in {RDominanceSurvival_fast_non_dominated_sort(heap, Refs(1, Len(heap)),
                                                            survival)} :
          /\ heap' = s.heap
          /\ fronts' = s.F
          /\ ret' = Returned("fast_non_dominated_sort", s.exc, <<>>)
    /\ UNCHANGED <<survival, directions, population_size, history, population>>
    /\ UNCHANGED tournamentVars
    /\ UNCHANGED jobVars

\* survival.update(pop=population, challengers=[the other individuals])
call_r_update ==
    /\ ret.op = "__init__"
    /\ Challengers # <<>>
    /\ \E r \in {RDominanceSurvival_update(heap, population, Challengers,
                                           population_size, survival)} :
          /\ heap' = r.heap
          /\ ret' = Returned("update", r.exc, r.val)
    /\ UNCHANGED <<survival, directions, population_size, history, population, fronts>>
    /\ UNCHANGED tournamentVars
    /\ UNCHANGED jobVars

NextRSurvival ==
    \/ call_dominate
    \/ call_r_fast_non_dominated_sort
    \/ call_r_update

SpecRSurvival == InitRSurvival /\ [][NextRSurvival]_vars

-----------------------------------------------------------------------------
(* The jobs of a batch changing status *)

InitJobs ==
    /\ directions = <<"min", "min">>
    /\ survival = create_survival
    /\ population_size = 2
    /\ heap = <<>>
    /\ history = <<>>
    /\ population = <<>>
    /\ ret = Returned("__init__", "", <<>>)
    /\ fronts = <<>>
    /\ TournamentIdle
    /\ JobsCreated

NextJobs ==
    \/ \E job \in Jobs, next_status \in RequestedStatuses :
          change_job_status(job, next_status)
    \/ change_job_status_open

SpecJobs == InitJobs /\ [][NextJobs]_vars

-----------------------------------------------------------------------------
(* Claims *)

\* what the claims call Pareto dominance between two objects of the heap
Dominates(h, x, y) ==
    /\ ~HasNone(h[x].scores)
    /\ ~HasNone(h[y].scores)
    /\ pareto_dominate(h[x].scores, h[y].scores, directions)

\* C1: once update_result has been called population_size times (the population
\* has reached population_size), the population holds exactly population_size
\* individuals after every later update_result call.
C1_BoundedPopulation ==
    Len(history) >= population_size => Len(population) = population_size

\* C1 witness: two results were recorded after the population was full, and
\* the last one was accepted in place of an incumbent.
C1_Witness ==
    /\ Len(history) >= population_size + 2
    /\ ret = Returned("update_result", "", <<>>)
    /\ history[Len(history)] \in Range(population)
    /\ Len(population) = population_size

\* the number of (front, position) places at which x occurs in fronts
Places(x) ==
    Cardinality({pl \in (1..Len(fronts)) \X (1..Len(heap)) :
                    pl[2] <= Len(fronts[pl[1]]) /\ fronts[pl[1]][pl[2]] = x})

\* C2: fast_non_dominated_sort over a list of distinct individuals with known
\* scores returns fronts in which every individual occurs exactly once, every
\* member of the k-th front (k from 0) has rank k, and the first front is
\* exactly the set of individuals no other individual of the list dominates.
C2_SortPartition ==
    ret.op = "fast_non_dominated_sort" =>
        /\ ret.exc = ""
        /\ \A x \in 1..Len(heap) : Places(x) = 1
        /\ \A k \in 1..Len(fronts) : \A i \in 1..Len(fronts[k]) :
              /\ fronts[k][i] \in 1..Len(heap)
              /\ heap[fronts[k][i]].rank = k - 1
        /\ Range(fronts[1]) =
              {x \in 1..Len(heap) : \A y \in 1..Len(heap) : y = x \/ ~Dominates(heap, y, x)}

\* C2 witness: a sort that produced a first front of two individuals and a
\* second front behind it.
C2_Witness ==
    /\ ret.op = "fast_non_dominated_sort"
    /\ Len(fronts) >= 2
    /\ Len(fronts[1]) >= 2
    /\ Len(fronts[2]) >= 1

\* C3: history starts empty, every update_result call appends exactly one
\* individual (the one it constructed) behind the unchanged earlier entries, and
\* no other operation changes history; so after n calls its length is n.
C3_AppendOnly ==
    /\ history = <<>>
    /\ [][IF ret'.op = "update_result"
          THEN /\ Len(history') = Len(history) + 1
               /\ SubSeq(history', 1, Len(history)) = history
               /\ history'[Len(history')] = Len(heap')
               /\ Len(heap') = Len(heap) + 1
          ELSE history' = history]_vars

\* C3 witness: the individual recorded last is in history although survival
\* did not keep it in the population.
C3_Witness ==
    /\ ret = Returned("update_result", "", <<>>)
    /\ Len(history) > population_size
    /\ history[Len(history)] \notin Range(population)
    /\ Len(history) = Len(heap)

\* C4 (as claimed): get_best() / get_nondominated_set() return exactly the
\* individuals of history with fully known scores that no other such individual
\* of history dominates.
C4_BestOverHistory ==
    ret.op \in {"get_best", "get_nondominated_set"} =>
        /\ ret.exc = ""
        /\ Range(ret.val) =
              {x \in Range(history) :
                  /\ ~HasNone(heap[x].scores)
                  /\ \A y \in Range(history) : y = x \/ ~Dominates(heap, y, x)}

\* C5: when the population is full and every incumbent Pareto-dominates the
\* single challenger, update_result leaves exactly the incumbents in the
\* population, the challenger is in history, and get_nondominated_set() does
\* not contain it.
C5_DominatedChallengerRejected ==
    [][(/\ ret'.op = "update_result"
        /\ Len(history') = Len(history) + 1
        /\ Len(population) >= population_size
        /\ \A i \in Range(population) : Dominates(heap', i, Len(heap')))
       => /\ ret'.exc = ""
          /\ Len(population') = Len(population)
          /\ Range(population') = Range(population)
          /\ Len(heap') \in Range(history')
          /\ Len(heap') \notin
                Range(calc_nondominated_set(heap', history', directions).val)]_vars

\* C5 witness: the last recorded individual is dominated by every member of a
\* full population and is not in it.
C5_Witness ==
    /\ ret = Returned("update_result", "", <<>>)
    /\ Len(history) > population_size
    /\ history[Len(history)] \notin Range(population)
    /\ \A i \in Range(population) : Dominates(heap, i, history[Len(history)])

\* C6: update on a full population returns population_size distinct individuals
\* that are the best under (rank, then crowding distance): nobody left out has
\* a lower rank than somebody kept, every front below the cut front is kept
\* whole, and within one rank nobody left out has a strictly larger distance
\* than somebody kept.
C6_BestByRankThenCrowding ==
    (ret.op = "update" /\ ret.exc = "" /\ Len(population) = population_size) =>
        LET kept == Range(ret.val)
            out == (1..Len(heap)) \ kept
            cut == SetMax({heap[y].rank : y \in kept})
        IN /\ Len(ret.val) = population_size
           /\ Cardinality(kept) = population_size
           /\ kept \subseteq 1..Len(heap)
           /\ \A x \in out : heap[x].rank >= cut
           /\ \A x \in 1..Len(heap) : heap[x].rank < cut => x \in kept
           /\ \A x \in out : \A y \in kept :
                 heap[x].rank = heap[y].rank
                    => ~DistGT(heap[x].distance, heap[y].distance)

\* C6 witness: the cut front was truncated, and an individual of it with a
\* finite distance lost against a kept one with a larger distance.
C6_Witness ==
    /\ ret.op = "update"
    /\ ret.exc = ""
    /\ Len(population) = population_size
    /\ \E x \in (1..Len(heap)) \ Range(ret.val) : \E y \in Range(ret.val) :
          /\ heap[x].rank = heap[y].rank
          /\ heap[x].distance.k = "fin"
          /\ DistGT(heap[y].distance, heap[x].distance)

\* C7 (as claimed): update called with at most population_size individuals and
\* one or several challengers returns at most population_size individuals.
C7_UpdateBounded ==
    (ret.op = "update" /\ ret.exc = "") => Len(ret.val) <= population_size

\* C8 (as claimed): on every population of two or more individuals
\* binary_tournament_select returns two individuals from different indices:
\* a returned pair never shares its index, and when the second parent is
\* looked for some pair of indices that leaves out the first parent can be drawn.
C8_TwoDistinctParents ==
    /\ (pc = "done" /\ ret.exc = "") => first_inx # second_inx
    /\ (pc = "while" /\ Len(population) >= 2) =>
          \E pair \in randint_pairs(0, Len(population) - 1) : ~InPair(first_inx, pair)

\* the steps binary_tournament_select can still take
Variant ==
    CASE pc = "start" -> RetryCap + 5
      [] pc = "second" -> RetryCap + 4
      [] pc = "while" -> RetryCap + 3 - try_times
      [] OTHER -> 0

\* C9: binary_tournament_select terminates: every step lowers a non-negative
\* count of the steps left, the retry counter never passes RetryCap + 1, the
\* call raises RuntimeError exactly when the counter has passed RetryCap with
\* the first parent's index still in the drawn pair, and it never returns the
\* first parent's index as the second parent.
C9_Terminates ==
    [][/\ Variant' < Variant
       /\ Variant' >= 0
       /\ try_times' <= RetryCap + 1
       /\ ret'.exc = "RuntimeError"
             => /\ pc' = "done"
                /\ try_times' = RetryCap + 1
                /\ InPair(first_inx', indi_inx')
       /\ (pc' = "done" /\ ret'.exc = "") => first_inx' # second_inx']_vars

\* C9 witness: the call ended in RuntimeError after RetryCap + 1 resamples.
C9_Witness ==
    /\ pc = "done"
    /\ ret = Returned("binary_tournament_select", "RuntimeError", <<>>)
    /\ try_times = RetryCap + 1
    /\ InPair(first_inx, indi_inx)

\* C10 (as claimed): where binary_tournament_select draws on a population of
\* two or more, every index 0..len(population)-1 of the population, the last
\* one included, can be drawn.
C10_EveryIndexDrawable ==
    (pc \in {"start", "second", "while"} /\ Len(population) >= 2) =>
        \A i \in 0..(Len(population) - 1) : i \in randint(0, Len(population) - 1)

\* C11: sample takes the random sampler's candidate exactly while the population
\* holds fewer than population_size individuals (filling, the state the searcher
\* starts in); otherwise (evolving) it runs the binary tournament and a candidate
\* it returns was made from the two selected members of the population, by
\* recombination and mutation or by the fallback mutation; and once the
\* population holds population_size individuals no step brings it below again.
C11_FillingThenEvolving ==
    /\ Len(population) < population_size
    /\ [][/\ (ret'.op = "sample" /\ Len(population) < population_size)
              => ret' = Returned("sample", "",
                           Candidate("_random_sample", 0, 0, "not called", "not called"))
          /\ (ret'.op = "sample" /\ Len(population) >= population_size)
              => \/ ret' = Returned("sample", "RuntimeError", <<>>)
                 \/ /\ ret'.val[1] \in {"recombination_mutation", "mutation_proba_1"}
                    /\ ret'.val[2] \in Range(population)
                    /\ ret'.val[3] \in Range(population)
                    /\ ret'.val[2] # ret'.val[3]
          /\ Len(population) >= population_size
              => Len(population') >= population_size]_vars

\* C11 witness: a sample in the evolving state returned a candidate made by
\* recombination and mutation of two selected parents.
C11_Witness ==
    /\ ret.op = "sample"
    /\ ret.exc = ""
    /\ Len(population) >= population_size
    /\ ret.val[1] = "recombination_mutation"
    /\ ret.val[2] \in Range(population)

\* C12: in the evolving state, when recombination.do raises, sample returns the
\* mutation (probability forced to 1) of the first selected parent, an error
\* leaves sample only when that mutation call itself raises, and population,
\* history and the individuals are unchanged.
C12_RecombinationFallback ==
    [][(/\ ret'.op = "sample"
        /\ Len(population) >= population_size
        /\ ret'.val # <<>>
        /\ ret'.val[4] = "raises")
       => /\ ret'.val[1] = "mutation_proba_1"
          /\ \E t \in binary_tournament_select(heap, population) :
                t.exc = "" /\ t.val = <<ret'.val[2], ret'.val[3]>>
          /\ ret'.exc = "" <=> ret'.val[5] = "returns"
          /\ UNCHANGED <<population, history, heap>>]_vars

\* C12 witness: recombination raised and sample returned the forced mutation of
\* the first parent.
C12_Witness ==
    /\ ret.op = "sample"
    /\ ret.exc = ""
    /\ ret.val[1] = "mutation_proba_1"
    /\ ret.val[4] = "raises"
    /\ ret.val[5] = "returns"
    /\ ret.val[2] \in Range(population)

\* the scores the list I shows on objective m
Column(I, m) == {heap[I[i]].scores[m] : i \in 1..Len(I)}

\* C13: after crowding_distance_assignment on a front of three or more
\* individuals in which every objective has max > min, for every objective the
\* individual placed first and the one placed last in the ascending (stable)
\* order of that objective have distance +inf, whatever the other objectives
\* added, and no distance is undefined.
C13_BoundaryInfinite ==
    (/\ ret.op = "crowding_distance_assignment"
     /\ Len(ret.val) >= 3
     /\ \A m \in 1..2 : SetMax(Column(ret.val, m)) > SetMin(Column(ret.val, m)))
    => /\ \A m \in 1..2 :
             LET sorted_I == SortedByScore(heap, ret.val, m)
             IN /\ heap[sorted_I[1]].distance = Inf
                /\ heap[sorted_I[Len(sorted_I)]].distance = Inf
                /\ heap[sorted_I[1]].scores[m] = SetMin(Column(ret.val, m))
                /\ heap[sorted_I[Len(sorted_I)]].scores[m] = SetMax(Column(ret.val, m))
       /\ \A x \in Range(ret.val) : heap[x].distance.k # "nan"

\* C13 witness: an individual that is first on the first objective and interior
\* on the second kept its +inf, next to an interior individual with a finite
\* distance.
C13_Witness ==
    /\ ret.op = "crowding_distance_assignment"
    /\ Len(ret.val) >= 3
    /\ \A m \in 1..2 : SetMax(Column(ret.val, m)) > SetMin(Column(ret.val, m))
    /\ LET first == SortedByScore(heap, ret.val, 1)[1]
           by2 == SortedByScore(heap, ret.val, 2)
       IN /\ first \notin {by2[1], by2[Len(by2)]}
          /\ heap[first].distance = Inf
    /\ \E x \in Range(ret.val) : heap[x].distance.k = "fin"

\* C14 (as claimed): crowding_distance_assignment on a front of three or more
\* individuals absorbs an objective with max = min as a zero contribution: no
\* individual is left with an undefined (NaN) distance.
C14_DegenerateAbsorbed ==
    (ret.op = "crowding_distance_assignment" /\ Len(ret.val) >= 3)
    => \A x \in Range(ret.val) : heap[x].distance.k # "nan"

\* the individuals of history with fully known scores
ValidHistory == SelectSeq(history, LAMBDA x : ~HasNone(heap[x].scores))

\* C16 (as claimed): an individual with an unknown score in history is left out
\* of the non-dominated computation: get_best() / get_nondominated_set() do
\* not fail, do not return it, and return what they return for the history
\* without the unknown-score individuals.
C16_UnknownExcluded ==
    ret.op \in {"get_best", "get_nondominated_set"} =>
        /\ ret.exc = ""
        /\ \A x \in Range(ret.val) : ~HasNone(heap[x].scores)
        /\ ret.val = calc_nondominated_set(heap, ValidHistory, directions).val


\* C19 (as claimed): the second parent returned by binary_tournament_select is
\* the comparator-not-worse individual of the accepted second pair of indices:
\* the one at the pair's first index if cmp_operator of the two individuals at
\* that pair is >= 0, and the one at its second index otherwise.
C19_SecondParentBetter ==
    (pc = "done" /\ ret.op = "binary_tournament_select" /\ ret.exc = "") =>
        ret.val[2] =
            population[(IF cmp_operator(heap[population[indi_inx[1] + 1]],
                                        heap[population[indi_inx[2] + 1]]) >= 0
                        THEN indi_inx[1] ELSE indi_inx[2]) + 1]


\* C15 (as claimed): RDominanceSurvival.dominate(p, q) is true iff p
\* Pareto-dominates q under the configured directions, or neither
\* Pareto-dominates the other and (dist(p) - dist(q)) / (max distance - min
\* distance over the population) < -threshold; in particular it is false
\* whenever q Pareto-dominates p.
C15_RDominanceContract ==
    ret.op = "dominate" =>
        LET p == ret.val[1]
            q == ret.val[2]
            pop == Refs(1, Len(heap))
        IN ret.val[3] =
              \/ Dominates(heap, p, q)
              \/ /\ ~Dominates(heap, p, q)
                 /\ ~Dominates(heap, q, p)
                 /\ DistanceGapBelow(AssignDistances(heap, pop, survival), p, q, pop,
                                     survival.threshold)

\* C17 (as claimed): fast_non_dominated_sort of an RDominanceSurvival over a
\* list of distinct individuals places every individual in exactly one front
\* and gives it a rank >= 0 (none keeps rank -1), and the first front is
\* non-empty whenever the list is non-empty.
C17_RSortPartition ==
    (survival.cls = "RDominanceSurvival" /\ ret.op = "fast_non_dominated_sort") =>
        /\ \A x \in 1..Len(heap) : Places(x) = 1 /\ heap[x].rank >= 0
        /\ heap # <<>> => fronts[1] # <<>>

\* C18 (as claimed): for an RNSGAIISearcher with population_size >= 2, once
\* update_result has been called population_size times (the population has
\* reached population_size), the population holds exactly population_size
\* individuals after every later update_result call.
C18_RBoundedPopulation ==
    (survival.cls = "RDominanceSurvival" /\ population_size >= 2
        /\ Len(history) >= population_size) =>
        Len(population) = population_size

\* C20 (as claimed): on every pair in which one individual Pareto-dominates the
\* other under the configured directions (minimise or maximise per objective),
\* RDominanceSurvival.dominate returns what RankAndCrowdSortSurvival.dominate
\* returns for the same directions.
C20_RDominanceUsesDirections ==
    (ret.op = "dominate"
        /\ \/ dominate(heap, ret.val[1], ret.val[2], directions)
           \/ dominate(heap, ret.val[2], ret.val[1], directions)) =>
        ret.val[3] = dominate(heap, ret.val[1], ret.val[2], directions)


\* C21 (as claimed): get_best() and get_nondominated_set() are pure queries, for
\* NSGAIISearcher and for RNSGAIISearcher: a call changes neither the population
\* list, nor the history, nor the rank or distance of any individual.
C21_QueriesPure ==
    [][ret'.op \in {"get_best", "get_nondominated_set"} =>
          /\ population' = population
          /\ history' = history
          /\ heap' = heap]_vars


\* C22 (as claimed): under Pareto dominance, across every update_result call, a
\* history individual absent from get_nondominated_set() stays absent, an
\* individual leaves the set only in the call that records a new individual
\* dominating it, and the set is reported and non-empty whenever history holds
\* an individual with fully known scores.
C22_NondominatedSetShrinks ==
    [][ret'.op = "update_result" /\ Len(history') = Len(history) + 1 =>
          LET before == calc_nondominated_set(heap, history, directions)
              after == calc_nondominated_set(heap', history', directions)
              new == history'[Len(history')]
          IN /\ \A x \in Range(history) :
                   (before.exc = "" /\ x \notin Range(before.val)) =>
                       x \notin Range(after.val)
             /\ \A x \in Range(before.val) :
                   x \notin Range(after.val) => Dominates(heap', new, x)
             /\ (\E x \in Range(history') : ~HasNone(heap'[x].scores)) =>
                   (after.exc = "" /\ after.val # <<>>)]_vars


\* C23: change_job_status accepts only INIT -> RUNNING and RUNNING -> a final
\* status; every other request (INIT, RUNNING from a job not in INIT, a final
\* status from a job not in RUNNING, an unknown status) raises ValueError with
\* no status file created or removed; an accepted transition to a final status
\* removes the running-status file before the final-status file is created, so
\* the running-status file and a final-status file of a job never exist together.
C23_StatusTransitions ==
    /\ [][(job_call.at # "open" /\ job_call' # job_call) =>
            LET current == ShellJob_status(status_files[job_call'.job])
                next_status == job_call'.next_status
                accepted == \/ current = STATUS_INIT /\ next_status = STATUS_RUNNING
                            \/ current = STATUS_RUNNING /\ next_status \in FINAL_STATUS
            IN IF accepted
               THEN /\ job_call'.at = "open"
                    /\ ret' = ret
                    /\ next_status \in FINAL_STATUS =>
                          STATUS_RUNNING \notin status_files'[job_call'.job]
               ELSE /\ job_call'.at = "raised"
                    /\ ret' = Returned("change_job_status", "ValueError", <<>>)
                    /\ status_files' = status_files]_vars
    /\ [][job_call.at = "open" =>
            /\ job_call'.at = "returned"
            /\ status_files' =
                  [status_files EXCEPT
                      ![job_call.job] = @ \cup {job_call.next_status}]]_vars
    /\ [](\A job \in Jobs :
              STATUS_RUNNING \in status_files[job] =>
                  status_files[job] \cap FINAL_STATUS = {})

\* C23 witness: a job went INIT -> RUNNING -> SUCCEED, only its final-status
\* file exists, and a later request to set it RUNNING again was refused.
C23_Witness ==
    \E job \in Jobs :
        /\ status_files[job] = {STATUS_SUCCEED}
        /\ job_call = [job |-> job, next_status |-> STATUS_RUNNING, at |-> "raised"]
        /\ ret = Returned("change_job_status", "ValueError", <<>>)

=============================================================================
